---- MODULE Spec2Model ----
(***************************************************************************)
(* A model of the computer-use agent loop (src/agent/agent.py), its        *)
(* built-in file memory, and the file-backed memory provider               *)
(* (src/memory_providers/file_memory_provider.py).                         *)
(*                                                                         *)
(* The specifications share the variables:                                 *)
(*   Spec     one call of Agent.run_full_turn on a constructed Agent: the  *)
(*            model endpoint, the computer backend, the operator answering *)
(*            safety checks and the page URL are the environment.          *)
(*   MemSpec  direct calls of the memory operations of both memory         *)
(*            implementations on one memory file, construction included.   *)
(*   FaultSpec     Spec and the provider's calls with memory I/O that may  *)
(*                 fail.                                                   *)
(*   DispatchSpec  Agent.handle_item applied to function_call items, with  *)
(*                 the memory providers the caller built beside the agent. *)
(*   ToolsSpec     constructions of Agents and the tool lists they pass to *)
(*                 the model.                                              *)
(*   HistorySpec   main of cli.py from its start, and a turn of a caller.  *)
(* Text is a sequence of characters; the memory file holds the characters  *)
(* written, and reading applies Python's universal-newline translation.    *)
(***************************************************************************)
EXTENDS Naturals, Sequences, FiniteSets, TLC

VARIABLES
    computer,    \* self.computer: [present, environment, slotnames]
    brain_file,  \* self.brain_file is set (TRUE) or None (FALSE)
    debug,       \* self.debug
    file,        \* the memory file on disk: [exists, data]
    new_items,   \* run_full_turn's accumulator
    response,    \* response["output"] of the model call being dispatched
    idx,         \* position of the for loop over response["output"]
    pc,          \* "loop" | "dispatch" | "returned" | "raised"
    error,       \* the exception that left run_full_turn, "none" if none
    log,         \* history: model calls, backend calls, screenshots, acks
    last_resp,   \* history: shape of the last model response
    rejected,    \* history: call_id whose safety check was rejected, 0 if none
    constructed, \* MemSpec: the memory objects constructed so far
    mem_hist,    \* MemSpec: the memory calls made so far (the last ones)
    input_items, \* the list the caller passes to run_full_turn
    context,     \* history: the input of the last create_response call
    file0,       \* history: the memory file when the turn began
    providers,   \* the memory files of the providers the caller built
    heap,        \* ToolsSpec: the list objects, heap[1] the default tools=[]
    agents,      \* ToolsSpec: the Agents constructed, in order
    tools_sent,  \* ToolsSpec: history: the tools of the last model call
    print_steps, \* self.print_steps
    acknowledge_safety_check_callback
                 \* self.acknowledge_safety_check_callback: "default", the
                 \* constructor's lambda: False, or "supplied" by the caller

\* What no step of run_full_turn and no memory call changes.
frame_vars ==
    <<file0, providers, heap, agents, tools_sent, print_steps,
      acknowledge_safety_check_callback>>

vars == <<computer, brain_file, debug, file, new_items, response, idx, pc,
          error, log, last_resp, rejected, constructed, mem_hist, context,
          input_items, frame_vars>>

agent_vars == <<computer, debug, new_items, response, idx, pc, error, log,
                last_resp, rejected, context>>

mem_vars == <<constructed, mem_hist>>

(***************************************************************************)
(* Bounds of the model.                                                    *)
(***************************************************************************)
MaxModelCalls == 3   \* model calls per turn
MaxItems == 2        \* output items the model produces per turn
MaxFileLen == 4      \* characters in the memory file
MaxHist == 2         \* memory calls remembered in mem_hist
MaxWritten == 2      \* characters a failing write may leave in the file

(***************************************************************************)
(* Text.                                                                   *)
(***************************************************************************)
CR == "\r"
LF == "\n"

EmptyText == <<>>
Success == <<"s", "u", "c", "c", "e", "s", "s">>

\* The texts a write_memory call may carry.
Contents == {<<>>, <<"a">>, <<CR>>, <<"a", CR>>}

\* open(path, "r", encoding="utf-8").read(): newline=None, so "\r\n" and a
\* lone "\r" are both read as "\n".
RECURSIVE read_text(_)
read_text(data) ==
    IF data = <<>> THEN <<>>
    ELSE IF Head(data) = CR
         THEN IF Len(data) > 1 /\ data[2] = LF
              THEN <<LF>> \o read_text(SubSeq(data, 3, Len(data)))
              ELSE <<LF>> \o read_text(Tail(data))
         ELSE <<Head(data)>> \o read_text(Tail(data))

\* f.write(f"\n{content}") on a file opened with "a": the characters are
\* appended ("\n" is written as os.linesep, which is "\n" on POSIX).
append_text(data, content) == data \o <<LF>> \o content

\* The outcome of the file operations of one memory call: they succeed, or
\* one of them raises OSError, either open() (opened is FALSE) or a later
\* operation; a write that raises (at the flush when the file is closed, on a
\* full disk or at the file size limit) has by then put the first written
\* characters of its text into the file.
NoFault == [ok |-> TRUE, opened |-> TRUE, written |-> 0]
Succeeding == {NoFault}
Failing ==
    {[ok |-> FALSE, opened |-> FALSE, written |-> 0]}
        \cup {[ok |-> FALSE, opened |-> TRUE, written |-> k] : k \in 0..MaxWritten}
Faulty == Succeeding \cup Failing

\* The characters of f"\n{content}" that reach the file: all of them, or on a
\* failure a part of them that is not the whole.
written_text(content, io) ==
    LET text == <<LF>> \o content IN
    IF io.ok THEN text
    ELSE IF ~io.opened THEN <<>>
    ELSE SubSeq(text, 1, IF io.written < Len(text) THEN io.written
                         ELSE Len(text) - 1)

\* open(path, "a", encoding="utf-8").close(): creates the file when absent,
\* keeps its content otherwise.
touch(f) == [exists |-> TRUE, data |-> IF f.exists THEN f.data ELSE <<>>]

\* The file after with open(path, "a") as f: f.write(f"\n{content}") with
\* outcome io: a failing open() leaves the file as it is, absent if it was; a
\* failure after open() leaves the file open() created, with what was written.
file_after_write(f, content, io) ==
    IF io.ok THEN [exists |-> TRUE, data |-> append_text(touch(f).data, content)]
    ELSE IF ~io.opened THEN f
    ELSE [exists |-> TRUE, data |-> touch(f).data \o written_text(content, io)]

\* A read through a file opened with "w+", which truncates it.
file_after_read_truncating(f) == [exists |-> TRUE, data |-> <<>>]

\* The file after open(path, "r") ... read(): reading does not modify it.
file_after_read(f) == f

Absent == [exists |-> FALSE, data |-> <<>>]

(***************************************************************************)
(* Agent.fetch_memory / Agent.write_memory (the built-in memory).          *)
(***************************************************************************)
\* Agent.fetch_memory's return value; io.ok is whether open and read succeed
\* (every exception is caught, lines 170-173).
fetch_memory(bf, f, io) ==
    IF ~bf THEN EmptyText
    ELSE IF io.ok /\ f.exists THEN read_text(f.data)
    ELSE EmptyText

\* Agent.write_memory's return value.
write_memory(bf, content) == IF ~bf THEN EmptyText ELSE content

\* A write_memory whose failed write leaves the file emptied.
write_memory_file_clobbering(bf, f, content, io) ==
    IF ~bf THEN f
    ELSE IF ~io.ok THEN [exists |-> TRUE, data |-> <<>>]
    ELSE file_after_write(f, content, io)

\* The memory file after Agent.write_memory(content), lines 177-183: a failure
\* is swallowed, with what was written by then left in the file.
write_memory_file(bf, f, content, io) ==
    IF ~bf THEN f ELSE file_after_write(f, content, io)

(***************************************************************************)
(* FileMemoryProvider.handle_call.  arguments is a dict:                   *)
(* [has_content, content].  The result is [raised, value, file]; io is     *)
(* the outcome of the file operations.                                     *)
(***************************************************************************)
NoArgs == [has_content |-> FALSE, content |-> <<>>]
ContentArgs(c) == [has_content |-> TRUE, content |-> c]

\* arguments.get("content", "")
get_content(arguments) ==
    IF arguments.has_content THEN arguments.content ELSE EmptyText

\* A provider whose last branch appends instead of raising.
handle_call_lenient(name, arguments, f, io) ==
    IF name = "fetch_memory"
    THEN [raised |-> "none",
          value |-> IF io.ok /\ f.exists THEN read_text(f.data) ELSE EmptyText,
          file |-> f]
    ELSE [raised |-> "none",
          value |-> get_content(arguments),
          file |-> file_after_write(f, get_content(arguments), io)]

handle_call(name, arguments, f, io) ==
    IF name = "fetch_memory"
    THEN [raised |-> "none",
          value |-> IF io.ok /\ f.exists THEN read_text(f.data) ELSE EmptyText,
          file |-> file_after_read(f)]
    ELSE IF name = "write_memory"
    THEN [raised |-> "none",
          value |-> get_content(arguments),
          file |-> file_after_write(f, get_content(arguments), io)]
    ELSE [raised |-> "ValueError", value |-> EmptyText, file |-> f]

(***************************************************************************)
(* Conversation items.  Every item is a record of the same shape; a field  *)
(* an item kind does not have holds "none", 0 or <<>>.                     *)
(*   checks  pending_safety_checks of a computer_call,                     *)
(*           acknowledged_safety_checks of a computer_call_output          *)
(*   output  [kind, text, shot, url]: null, a string, or the image of      *)
(*           screenshot number shot with the current_url attached          *)
(*   content of a message: "text" when content[0]["text"] exists, "empty"  *)
(*           for an empty list, "refusal" for a first part without text    *)
(***************************************************************************)
NoOutput == [kind |-> "none", text |-> <<>>, shot |-> 0, url |-> "none"]
NullOutput == [kind |-> "null", text |-> <<>>, shot |-> 0, url |-> "none"]
StrOutput(t) == [kind |-> "str", text |-> t, shot |-> 0, url |-> "none"]
ImageOutput(n, u) == [kind |-> "image", text |-> <<>>, shot |-> n, url |-> u]

Item(type, role, call_id, name, arguments, checks, output) ==
    [type |-> type, role |-> role, call_id |-> call_id, name |-> name,
     arguments |-> arguments, checks |-> checks, output |-> output,
     content |-> IF type = "message" THEN "text" ELSE "none"]

Message == Item("message", "assistant", 0, "none", "none", <<>>, NoOutput)
\* An assistant message whose content list is empty, and one whose first
\* content part is a refusal, which has no "text".
EmptyMessage == [Message EXCEPT !.content = "empty"]
RefusalMessage == [Message EXCEPT !.content = "refusal"]
\* {"role": "user", "content": user_input}, cli.py line 100 (Item's get
\* defaults stand for the keys the dict does not have).
UserMessage == Item("message", "user", 0, "none", "none", <<>>, NoOutput)
Reasoning == Item("reasoning", "none", 0, "none", "none", <<>>, NoOutput)
FunctionCall(name, arguments) ==
    Item("function_call", "none", 0, name, arguments, <<>>, NoOutput)
ComputerCall(action, checks) ==
    Item("computer_call", "none", 0, action, "none", checks, NoOutput)
FunctionCallOutput(call_id, output) ==
    Item("function_call_output", "none", call_id, "none", "none", <<>>, output)
ComputerCallOutput(call_id, checks, output) ==
    Item("computer_call_output", "none", call_id, "none", "none", checks, output)

CallTypes == {"function_call", "computer_call"}
OutputTypes == {"function_call_output", "computer_call_output"}
OutputTypeOf(t) ==
    IF t = "function_call" THEN "function_call_output" ELSE "computer_call_output"

(***************************************************************************)
(* The environment: argument payloads, the backend's methods, page URLs.   *)
(***************************************************************************)
ArgsEmpty == "{}"
ArgsA == "{\"content\": \"a\"}"
ArgsCR == "{\"content\": \"\\r\"}"
ArgsBad == "{"

\* json.loads(item["arguments"]): the parsed dict, or JSONDecodeError.
json_loads(text) ==
    IF text = ArgsEmpty THEN [ok |-> TRUE, has_content |-> FALSE, content |-> <<>>]
    ELSE IF text = ArgsA THEN [ok |-> TRUE, has_content |-> TRUE, content |-> <<"a">>]
    ELSE IF text = ArgsCR THEN [ok |-> TRUE, has_content |-> TRUE, content |-> <<CR>>]
    ELSE [ok |-> FALSE, has_content |-> FALSE, content |-> <<>>]

\* The action methods of the computer backend, each taking the action's
\* fields as keyword arguments (one of them shares its name with a memory
\* tool).
ComputerMethods == {"navigate", "click", "back", "write_memory"}

\* The attributes of the backend that are values, not methods: dimensions and
\* environment, read at lines 40-42 and 155.
ComputerAttributes == {"dimensions", "environment"}

\* self.computer: None, or a backend of one of the environments.  slotnames
\* tells whether the backend's class holds __slotnames__, the list Python
\* stores on a class the first time the state of one of its objects is taken.
Computers ==
    {[present |-> FALSE, environment |-> "none", slotnames |-> FALSE],
     [present |-> TRUE, environment |-> "browser", slotnames |-> FALSE],
     [present |-> TRUE, environment |-> "linux", slotnames |-> FALSE]}

Urls == {"https://example.com", "https://blocked.example"}
BlockedUrls == {"https://blocked.example"}

\* check_blocklisted_url(url) raises ValueError for a blocked URL.
check_blocklisted_url(url) == IF url \in BlockedUrls THEN "BlockedURL" ELSE "none"

\* The operations of the backend that take no argument: screenshot(), called
\* at line 131, and in a browser get_current_url(), called at line 156.
ComputerOperations(c) ==
    {"screenshot"} \cup IF c.environment = "browser" THEN {"get_current_url"}
                        ELSE {}

\* The methods of a browser backend that need an argument no modelled call
\* carries: goto(url), cli.py line 91.
BrowserMethods(c) == IF c.environment = "browser" THEN {"goto"} ELSE {}

\* The attributes every Python object has, None included: those that can be
\* called without argument, and those that cannot (they are values, or need
\* an argument).
ObjectCallable ==
    {"__class__", "__dir__", "__getstate__", "__hash__", "__init__",
     "__init_subclass__", "__repr__", "__sizeof__", "__str__",
     "__subclasshook__"}
ObjectUncallable ==
    {"__delattr__", "__doc__", "__eq__", "__format__", "__ge__",
     "__getattribute__", "__gt__", "__le__", "__lt__", "__ne__", "__new__",
     "__reduce_ex__", "__setattr__"}

\* The further attributes of None, and those of a backend object, which is
\* an instance of a class used as a context manager (cli.py line 79).
NoneCallable == {"__bool__"}
NoneUncallable == {"__reduce__"}
InstanceCallable == {"__enter__", "__reduce__"}
InstanceUncallable(c) ==
    {"__dict__", "__exit__", "__module__", "__weakref__"}
        \cup IF c.slotnames THEN {"__slotnames__"} ELSE {}

\* The attributes whose call takes the state of the object, object.__getstate__
\* and object.__reduce__: the first such call stores __slotnames__ on the class.
StateMethods == {"__getstate__", "__reduce__"}

\* The attributes of self.computer that calling without argument succeeds
\* for, apart from the backend's own methods.
callable_attributes(c) ==
    ObjectCallable \cup IF c.present THEN InstanceCallable ELSE NoneCallable

\* The attributes of self.computer, a backend or None.
attributes(c) ==
    ObjectCallable \cup ObjectUncallable
        \cup IF c.present
             THEN ComputerMethods \cup ComputerAttributes
                      \cup ComputerOperations(c) \cup BrowserMethods(c)
                      \cup InstanceCallable \cup InstanceUncallable(c)
             ELSE NoneCallable \cup NoneUncallable

\* hasattr(self.computer, name), true of every attribute of the object,
\* method or not; self.computer may be None.
hasattr_computer(c, name) == name \in attributes(c)

Event(ev, name) == [ev |-> ev, name |-> name]
\* method(**args), line 107: the backend method called and its keyword
\* arguments, the parsed dict.
MethodEvent(name, args) == [ev |-> "method", name |-> name, args |-> args]
CountEv(lg, ev) == Cardinality({i \in 1..Len(lg) : lg[i].ev = ev})

\* getattr(self.computer, name)(**kwargs), lines 106-107 and 128-129, for a
\* name the object has: [err, log, slots].  An action method takes the
\* keyword arguments given; an operation or another callable attribute raises
\* TypeError when given one (None's __init__ ignores it); anything else
\* raises TypeError when called.  acted is the event of an action method;
\* slots tells that the call stored __slotnames__ on the backend's class.
call_method(c, name, has_kwargs, url, acted) ==
    IF c.present /\ name \in ComputerMethods
    THEN [err |-> "none", log |-> <<acted>>, slots |-> FALSE]
    ELSE IF c.present /\ name \in ComputerOperations(c)
    THEN IF has_kwargs
         THEN [err |-> "TypeError", log |-> <<>>, slots |-> FALSE]
         ELSE [err |-> "none",
               log |-> <<IF name = "screenshot" THEN Event("screenshot", "none")
                         ELSE Event("get_current_url", url)>>,
               slots |-> FALSE]
    ELSE IF /\ name \in callable_attributes(c)
            /\ ~has_kwargs \/ (~c.present /\ name = "__init__")
    THEN [err |-> "none", log |-> <<>>,
          slots |-> c.present /\ name \in StateMethods]
    ELSE [err |-> "TypeError", log |-> <<>>, slots |-> FALSE]

(***************************************************************************)
(* Agent.handle_item.  The result is [err, out, file, log, rejected,       *)
(* slots]: the exception raised ("none" if it returns), the items          *)
(* returned, the memory file afterwards, the backend events in call order, *)
(* the call_id of a rejected safety check, and whether the backend's class *)
(* now holds __slotnames__.                                                *)
(***************************************************************************)
Returns(out, f, lg) ==
    [err |-> "none", out |-> out, file |-> f, log |-> lg, rejected |-> 0,
     slots |-> FALSE]
Raises(err, f, lg, rej) ==
    [err |-> err, out |-> <<>>, file |-> f, log |-> lg, rejected |-> rej,
     slots |-> FALSE]

\* The result r of a step whose backend call left the class as called tells.
Storing(called, r) == [r EXCEPT !.slots = called.slots]

\* self.computer after a step with result r.
computer_after(c, r) == IF r.slots THEN [c EXCEPT !.slotnames = TRUE] ELSE c

\* The except clause taken when the memory file operation fails, lines
\* 172-173 and 182-183.
IoEvents(bf, name, io) ==
    IF bf /\ ~io.ok THEN <<Event("io_error", name)>> ELSE <<>>

\* A resolution that looks at the backend's methods before the memory names.
function_result_backend_first(c, bf, f, name, args, io, url) ==
    IF hasattr_computer(c, name)
    THEN LET called == call_method(c, name, args.has_content, url,
                                   MethodEvent(name, args))
         IN Storing(called,
                IF called.err # "none" THEN Raises(called.err, f, called.log, 0)
                ELSE Returns(StrOutput(Success), f, called.log))
    ELSE IF name = "fetch_memory"
    THEN Returns(StrOutput(fetch_memory(bf, f, io)), file_after_read(f),
                 IoEvents(bf, name, io))
    ELSE IF name = "write_memory"
    THEN IF ~args.has_content
         THEN Raises("TypeError", f, <<>>, 0)
         ELSE Returns(StrOutput(write_memory(bf, args.content)),
                      write_memory_file(bf, f, args.content, io),
                      IoEvents(bf, name, io))
    ELSE Returns(NullOutput, f, <<>>)

\* The result of the function named name, lines 99-111; url is the page URL
\* the backend reports.
function_result(c, bf, f, name, args, io, url) ==
    IF name = "fetch_memory"
    THEN Returns(StrOutput(fetch_memory(bf, f, io)), file_after_read(f),
                 IoEvents(bf, name, io))
    ELSE IF name = "write_memory"
    THEN IF ~args.has_content
         THEN Raises("TypeError", f, <<>>, 0)
         ELSE Returns(StrOutput(write_memory(bf, args.content)),
                      write_memory_file(bf, f, args.content, io),
                      IoEvents(bf, name, io))
    ELSE IF hasattr_computer(c, name)
    THEN LET called == call_method(c, name, args.has_content, url,
                                   MethodEvent(name, args))
         IN Storing(called,
                IF called.err # "none" THEN Raises(called.err, f, called.log, 0)
                ELSE Returns(StrOutput(Success), f, called.log))
    ELSE Returns(NullOutput, f, <<>>)

\* A function_call branch that returns nothing for an unknown function.
handle_function_call_silent_unknown(c, bf, f, item, io, url) ==
    LET args == json_loads(item.arguments) IN
    IF ~args.ok THEN Raises("JSONDecodeError", f, <<>>, 0)
    ELSE LET r == function_result(c, bf, f, item.name, args, io, url) IN
         IF r.err # "none" THEN r
         ELSE IF r.out = NullOutput THEN [r EXCEPT !.out = <<>>]
         ELSE [r EXCEPT !.out = <<FunctionCallOutput(item.call_id, r.out)>>]

\* The function_call branch, lines 94-119.
handle_function_call(c, bf, f, item, io, url) ==
    LET args == json_loads(item.arguments) IN
    IF ~args.ok THEN Raises("JSONDecodeError", f, <<>>, 0)
    ELSE LET r == function_result(c, bf, f, item.name, args, io, url) IN
         IF r.err # "none" THEN r
         ELSE [r EXCEPT !.out = <<FunctionCallOutput(item.call_id, r.out)>>]

\* The first check the acknowledgment callback rejects, 0 if none.
first_rejected(checks, acks) ==
    IF \E i \in 1..Len(checks) : ~acks[i]
    THEN CHOOSE i \in 1..Len(checks) :
             ~acks[i] /\ \A j \in 1..(i - 1) : acks[j]
    ELSE 0

\* acknowledge_safety_check_callback(message) for the first n checks, lines
\* 136-139: the message passed and the answer given.
AckEvents(checks, acks, n) ==
    [i \in 1..n |-> [ev |-> "ack", name |-> checks[i], answer |-> acks[i]]]

\* The computer_call_output built at lines 144-152.
call_output(item, shot, url) ==
    ComputerCallOutput(item.call_id, item.checks, ImageOutput(shot, url))

\* A computer_call branch that logs a rejected safety check and goes on.
handle_computer_call_ignoring_rejection(c, f, item, acks, url, shot, cb) ==
    IF ~hasattr_computer(c, item.name)
    THEN Raises("AttributeError", f, <<>>, 0)
    ELSE LET called == call_method(c, item.name, FALSE, url,
                                   Event("action", item.name))
             acted == called.log \o <<Event("screenshot", "none")>>
             taken == shot + CountEv(called.log, "screenshot")
             rej == first_rejected(item.checks, acks)
             asked == AckEvents(item.checks, acks, Len(item.checks))
             u == IF c.environment = "browser" THEN url ELSE "none"
         IN Storing(called,
            IF called.err # "none" THEN Raises(called.err, f, called.log, 0)
            ELSE IF ~c.present
            THEN Raises("AttributeError", f, called.log, 0)
            ELSE IF cb = "default" /\ item.checks # <<>>
            THEN Raises("TypeError", f, acted, 0)
            ELSE [Returns(<<call_output(item, taken, u)>>, f, acted \o asked)
                     EXCEPT !.rejected = IF rej # 0 THEN item.call_id ELSE 0])

\* A computer_call branch that forgets the screenshot.
handle_computer_call_no_screenshot(c, f, item, acks, url, shot, cb) ==
    IF ~hasattr_computer(c, item.name)
    THEN Raises("AttributeError", f, <<>>, 0)
    ELSE LET called == call_method(c, item.name, FALSE, url,
                                   Event("action", item.name))
             acted == called.log
             taken == shot + CountEv(called.log, "screenshot")
             rej == first_rejected(item.checks, acks)
             asked == AckEvents(item.checks, acks,
                                IF rej = 0 THEN Len(item.checks) ELSE rej)
         IN Storing(called,
            IF called.err # "none" THEN Raises(called.err, f, called.log, 0)
            ELSE IF ~c.present
            THEN Raises("AttributeError", f, called.log, 0)
            ELSE IF cb = "default" /\ item.checks # <<>>
            THEN Raises("TypeError", f, acted, 0)
            ELSE IF rej # 0
            THEN Raises("SafetyCheckFailed", f, acted \o asked, item.call_id)
            ELSE IF c.environment = "browser"
            THEN IF check_blocklisted_url(url) # "none"
                 THEN Raises(check_blocklisted_url(url), f,
                             acted \o asked \o <<Event("get_current_url", url)>>, 0)
                 ELSE Returns(<<call_output(item, taken, url)>>, f,
                              acted \o asked \o <<Event("get_current_url", url)>>)
            ELSE Returns(<<call_output(item, taken, "none")>>, f, acted \o asked))

\* A computer_call branch that asks for the acknowledgments first and acts
\* only when all are given.
handle_computer_call_ack_first(c, f, item, acks, url, shot, cb) ==
    IF ~hasattr_computer(c, item.name)
    THEN Raises("AttributeError", f, <<>>, 0)
    ELSE LET called == call_method(c, item.name, FALSE, url,
                                   Event("action", item.name))
             acted == called.log \o <<Event("screenshot", "none")>>
             taken == shot + CountEv(called.log, "screenshot")
             rej == first_rejected(item.checks, acks)
             asked == AckEvents(item.checks, acks,
                                IF rej = 0 THEN Len(item.checks) ELSE rej)
         IN Storing(called,
            IF called.err # "none" THEN Raises(called.err, f, called.log, 0)
            ELSE IF ~c.present
            THEN Raises("AttributeError", f, called.log, 0)
            ELSE IF cb = "default" /\ item.checks # <<>>
            THEN Raises("TypeError", f, acted, 0)
            ELSE IF rej # 0
            THEN Raises("SafetyCheckFailed", f, asked, item.call_id)
            ELSE IF c.environment = "browser"
            THEN IF check_blocklisted_url(url) # "none"
                 THEN Raises(check_blocklisted_url(url), f,
                             asked \o acted \o <<Event("get_current_url", url)>>, 0)
                 ELSE Returns(<<call_output(item, taken, url)>>, f,
                              asked \o acted \o <<Event("get_current_url", url)>>)
            ELSE Returns(<<call_output(item, taken, "none")>>, f, asked \o acted))

\* A computer_call branch that notes a blocklisted URL and still returns the
\* output.
handle_computer_call_url_logged_only(c, f, item, acks, url, shot, cb) ==
    IF ~hasattr_computer(c, item.name)
    THEN Raises("AttributeError", f, <<>>, 0)
    ELSE LET called == call_method(c, item.name, FALSE, url,
                                   Event("action", item.name))
             acted == called.log \o <<Event("screenshot", "none")>>
             taken == shot + CountEv(called.log, "screenshot")
             rej == first_rejected(item.checks, acks)
             asked == AckEvents(item.checks, acks,
                                IF rej = 0 THEN Len(item.checks) ELSE rej)
         IN Storing(called,
            IF called.err # "none" THEN Raises(called.err, f, called.log, 0)
            ELSE IF ~c.present
            THEN Raises("AttributeError", f, called.log, 0)
            ELSE IF cb = "default" /\ item.checks # <<>>
            THEN Raises("TypeError", f, acted, 0)
            ELSE IF rej # 0
            THEN Raises("SafetyCheckFailed", f, acted \o asked, item.call_id)
            ELSE IF c.environment = "browser"
            THEN Returns(<<call_output(item, taken, url)>>, f,
                         acted \o asked \o <<Event("get_current_url", url)>>)
            ELSE Returns(<<call_output(item, taken, "none")>>, f, acted \o asked))

\* The computer_call branch, lines 121-160.  cb is the callback: a supplied
\* one takes the check's message and acks[i] is its answer to check i; the
\* default one, lambda: False (line 25), takes no argument, and calling it
\* with the message (line 139) raises TypeError.  url is the page URL the
\* backend reports, shot the number of the next screenshot the backend takes
\* (the action may itself be a screenshot).
handle_computer_call(c, f, item, acks, url, shot, cb) ==
    IF ~hasattr_computer(c, item.name)
    THEN Raises("AttributeError", f, <<>>, 0)
    ELSE LET called == call_method(c, item.name, FALSE, url,
                                   Event("action", item.name))
             acted == called.log \o <<Event("screenshot", "none")>>
             taken == shot + CountEv(called.log, "screenshot")
             rej == first_rejected(item.checks, acks)
             asked == AckEvents(item.checks, acks,
                                IF rej = 0 THEN Len(item.checks) ELSE rej)
         IN Storing(called,
            IF called.err # "none" THEN Raises(called.err, f, called.log, 0)
            ELSE IF ~c.present
            THEN Raises("AttributeError", f, called.log, 0)
            ELSE IF cb = "default" /\ item.checks # <<>>
            THEN Raises("TypeError", f, acted, 0)
            ELSE IF rej # 0
            THEN Raises("SafetyCheckFailed", f, acted \o asked, item.call_id)
            ELSE IF c.environment = "browser"
            THEN IF check_blocklisted_url(url) # "none"
                 THEN Raises(check_blocklisted_url(url), f,
                             acted \o asked \o <<Event("get_current_url", url)>>, 0)
                 ELSE Returns(<<call_output(item, taken, url)>>, f,
                              acted \o asked \o <<Event("get_current_url", url)>>)
            ELSE Returns(<<call_output(item, taken, "none")>>, f, acted \o asked))

\* The message branch, lines 90-92: with print_steps, ps, the text of the
\* first content part is printed, which raises when there is no part or when
\* the part has no text.
handle_message(f, item, ps) ==
    IF ps /\ item.content = "empty" THEN Raises("IndexError", f, <<>>, 0)
    ELSE IF ps /\ item.content = "refusal" THEN Raises("KeyError", f, <<>>, 0)
    ELSE Returns(<<>>, f, <<>>)

handle_item(c, bf, f, item, acks, url, shot, io, ps, cb) ==
    IF item.type = "message" THEN handle_message(f, item, ps)
    ELSE IF item.type = "function_call"
    THEN handle_function_call(c, bf, f, item, io, url)
    ELSE IF item.type = "computer_call"
    THEN handle_computer_call(c, f, item, acks, url, shot, cb)
    ELSE Returns(<<>>, f, <<>>)

(***************************************************************************)
(* Agent.run_full_turn.                                                    *)
(***************************************************************************)
\* The items a model response may hold (call_id is assigned on receipt).
Templates ==
    {Message, RefusalMessage, Reasoning,
     FunctionCall("fetch_memory", ArgsEmpty),
     FunctionCall("write_memory", ArgsA),
     FunctionCall("write_memory", ArgsCR),
     FunctionCall("write_memory", ArgsEmpty),
     FunctionCall("back", ArgsEmpty),
     FunctionCall("frobnicate", ArgsEmpty),
     FunctionCall("back", ArgsBad),
     ComputerCall("navigate", <<>>),
     ComputerCall("click", <<"check 1">>),
     ComputerCall("navigate", <<"check 1", "check 2">>),
     ComputerCall("screenshot", <<>>),
     ComputerCall("frobnicate", <<>>)}

SeqsUpTo(S, n) == UNION {[1..k -> S] : k \in 0..n}

\* The items of the accumulator that came from the model.
Received(items) == SelectSeq(items, LAMBDA it : it.type \notin OutputTypes)

\* The model endpoint's answers: a response without "output", or one whose
\* output holds at most room items.
ResponsesOf(T, room) ==
    {[has_output |-> FALSE, output |-> <<>>]}
    \cup {[has_output |-> TRUE, output |-> o] : o \in SeqsUpTo(T, room)}

Responses(room) == ResponsesOf(Templates, room)

\* The model endpoint gives every call item a fresh call_id.
WithIds(output, base) ==
    [k \in 1..Len(output) |->
        IF output[k].type \in CallTypes
        THEN [output[k] EXCEPT !.call_id = base + k]
        ELSE output[k]]

\* A loop that looks at the first item of the accumulator instead of the last.
loop_condition_first_item(items) ==
    IF items # <<>> THEN items[1].role # "assistant" ELSE TRUE

\* The caller's list after a model call: input_items + new_items, line 200,
\* builds a new list and leaves input_items as it is.
input_items_after_call(input, items) == input

\* The while condition, line 195.
loop_condition(items) ==
    IF items # <<>> THEN items[Len(items)].role # "assistant" ELSE TRUE

\* A missing output read as an empty one outside debug mode, as
\* response.get("output", []) would.
response_outcome_default_empty(resp, dbg) ==
    IF ~resp.has_output /\ dbg THEN [err |-> "NoModelOutput", items |-> <<>>]
    ELSE [err |-> "none", items |-> resp.output]

\* Lines 206-210: what becomes of the response.  [err, items].
response_outcome(resp, dbg) ==
    IF ~resp.has_output /\ dbg THEN [err |-> "NoModelOutput", items |-> <<>>]
    ELSE IF ~resp.has_output THEN [err |-> "KeyError", items |-> <<>>]
    ELSE [err |-> "none", items |-> resp.output]

RespShape(resp) ==
    IF ~resp.has_output THEN "missing"
    ELSE IF resp.output = <<>> THEN "empty" ELSE "items"

\* tools_sent before any model call: no agent, no tools.
NothingSent == [agent |-> 0, tools |-> <<>>]

\* The state after Agent.__init__ and the entry of run_full_turn, whose
\* print_steps is True unless the caller says otherwise (taken here to be a
\* caller of an agent without a backend, outside debug mode).  The callback is the caller's or
\* the default (taken here with a backend, which alone leads to the callback,
\* without a memory file and outside debug mode).
Init ==
    /\ computer \in Computers
    /\ brain_file \in BOOLEAN
    /\ debug \in BOOLEAN
    /\ file \in IF brain_file
                THEN {touch(Absent), touch([exists |-> TRUE, data |-> <<"a">>])}
                ELSE {Absent}
    /\ new_items = <<>>
    /\ response = <<>>
    /\ idx = 1
    /\ pc = "loop"
    /\ error = "none"
    /\ log = <<>>
    /\ last_resp = "none"
    /\ rejected = 0
    /\ constructed = {"agent"}
    /\ mem_hist = <<>>
    /\ input_items = <<UserMessage>>
    /\ context = <<>>
    /\ file0 = file
    /\ providers = <<>>
    /\ heap = <<>>
    /\ agents = <<>>
    /\ tools_sent = NothingSent
    /\ print_steps \in IF ~computer.present /\ ~debug THEN BOOLEAN ELSE {TRUE}
    /\ acknowledge_safety_check_callback
           \in IF computer.present /\ ~brain_file /\ ~debug
               THEN {"default", "supplied"}
               ELSE {"supplied"}

\* One pass of lines 195-210: the loop goes on, the model is called, and its
\* output is appended to the accumulator (or the missing output raises).  T
\* holds the items the model endpoint's responses are made of.
CallModelOf(T) ==
    /\ pc = "loop"
    /\ loop_condition(new_items)
    /\ CountEv(log, "create_response") < MaxModelCalls
    /\ \E resp \in ResponsesOf(T, MaxItems - Len(Received(new_items))) :
        LET o == response_outcome(
                     [resp EXCEPT !.output =
                          WithIds(resp.output, Len(Received(new_items)))],
                     debug)
        IN /\ log' = Append(log, Event("create_response", "none"))
           /\ context' = input_items \o new_items
           /\ last_resp' = RespShape(resp)
           /\ IF o.err # "none"
              THEN /\ pc' = "raised"
                   /\ error' = o.err
                   /\ UNCHANGED <<new_items, response>>
              ELSE /\ new_items' = new_items \o o.items
                   /\ response' = o.items
                   /\ pc' = IF o.items = <<>> THEN "loop" ELSE "dispatch"
                   /\ error' = "none"
    /\ idx' = 1
    /\ input_items' = input_items_after_call(input_items, new_items)
    /\ UNCHANGED <<computer, brain_file, debug, file, rejected, mem_vars,
                   frame_vars>>

\* The model call with any of the responses, Responses(room).
CallModel == CallModelOf(Templates)

\* One pass of the for loop, lines 211-212; IO holds the outcomes the memory
\* file operations of the step can have.
HandleItemIo(IO) ==
    /\ pc = "dispatch"
    /\ \E acks \in [1..Len(response[idx].checks) -> BOOLEAN], url \in Urls,
          io \in IO :
        LET r == handle_item(computer, brain_file, file, response[idx], acks,
                             url, CountEv(log, "screenshot") + 1, io,
                             print_steps, acknowledge_safety_check_callback)
        IN /\ log' = log \o r.log
           /\ computer' = computer_after(computer, r)
           /\ file' = r.file
           /\ rejected' = IF r.rejected # 0 THEN r.rejected ELSE rejected
           /\ IF r.err # "none"
              THEN /\ pc' = "raised"
                   /\ error' = r.err
                   /\ UNCHANGED <<new_items, idx>>
              ELSE /\ new_items' = new_items \o r.out
                   /\ idx' = idx + 1
                   /\ pc' = IF idx = Len(response) THEN "loop" ELSE "dispatch"
                   /\ error' = "none"
    /\ UNCHANGED <<brain_file, debug, response, last_resp, context,
                   mem_vars, input_items, frame_vars>>

\* The for loop's pass with file operations that succeed.
HandleItem == HandleItemIo(Succeeding)

\* The loop ends and run_full_turn returns new_items, lines 195 and 214.
Return ==
    /\ pc = "loop"
    /\ ~loop_condition(new_items)
    /\ pc' = "returned"
    /\ UNCHANGED <<computer, brain_file, debug, file, new_items, response, idx,
                   error, log, last_resp, rejected, context, mem_vars,
                   input_items, frame_vars>>

Next == CallModel \/ HandleItem \/ Return

Spec == Init /\ [][Next]_vars

(***************************************************************************)
(* The memory operations called directly, on one memory file.              *)
(***************************************************************************)
ProviderNames == {"fetch_memory", "write_memory", "delete_memory"}
ProviderArgs == {NoArgs} \cup {ContentArgs(c) : c \in Contents}

InitialData == {<<>>, <<"a">>, <<"a", CR>>}

MemCall(obj, op, arg, raised, value, before, after, io) ==
    [obj |-> obj, op |-> op, arg |-> arg, raised |-> raised, value |-> value,
     before |-> before, after |-> after, io |-> io]

Remember(h, call) ==
    IF Len(h) < MaxHist THEN Append(h, call) ELSE Append(Tail(h), call)

\* Before anything is constructed: the memory file exists or not.
MemInit ==
    /\ computer = [present |-> FALSE, environment |-> "none", slotnames |-> FALSE]
    /\ brain_file = TRUE
    /\ debug = FALSE
    /\ file \in {Absent} \cup {[exists |-> TRUE, data |-> d] : d \in InitialData}
    /\ new_items = <<>>
    /\ response = <<>>
    /\ idx = 1
    /\ pc = "loop"
    /\ error = "none"
    /\ log = <<>>
    /\ last_resp = "none"
    /\ rejected = 0
    /\ constructed = {}
    /\ mem_hist = <<>>
    /\ input_items = <<>>
    /\ context = <<>>
    /\ file0 = file
    /\ providers = <<>>
    /\ heap = <<>>
    /\ agents = <<>>
    /\ tools_sent = NothingSent
    /\ print_steps = TRUE
    /\ acknowledge_safety_check_callback = "supplied"

\* FileMemoryProvider.__init__
ProviderInit ==
    /\ "provider" \notin constructed
    /\ constructed' = constructed \cup {"provider"}
    /\ file' = touch(file)
    /\ mem_hist' = Remember(mem_hist,
           MemCall("provider", "__init__", <<>>, "none", <<>>, file, file',
                   NoFault))
    /\ UNCHANGED <<agent_vars, brain_file, input_items, frame_vars>>

\* Agent.__init__ with brain_file given, lines 47-50.
AgentInit ==
    /\ "agent" \notin constructed
    /\ constructed' = constructed \cup {"agent"}
    /\ file' = IF brain_file THEN touch(file) ELSE file
    /\ mem_hist' = Remember(mem_hist,
           MemCall("agent", "__init__", <<>>, "none", <<>>, file, file', NoFault))
    /\ UNCHANGED <<agent_vars, brain_file, input_items, frame_vars>>

\* FileMemoryProvider.handle_call(name, arguments); IO holds the outcomes
\* the file operations of the call can have.
ProviderHandleCallIo(IO) ==
    /\ "provider" \in constructed
    /\ \E name \in ProviderNames, arguments \in ProviderArgs, io \in IO :
        LET r == handle_call(name, arguments, file, io) IN
        /\ Len(r.file.data) <= MaxFileLen
        /\ file' = r.file
        /\ mem_hist' = Remember(mem_hist,
               MemCall("provider", name, get_content(arguments), r.raised,
                       r.value, file, r.file, io))
    /\ UNCHANGED <<agent_vars, brain_file, constructed, input_items,
                   frame_vars>>

ProviderHandleCall == ProviderHandleCallIo(Succeeding)

\* Agent.fetch_memory()
AgentFetchMemoryIo(IO) ==
    /\ "agent" \in constructed
    /\ \E io \in IO :
        /\ file' = file_after_read(file)
        /\ mem_hist' = Remember(mem_hist,
               MemCall("agent", "fetch_memory", <<>>, "none",
                       fetch_memory(brain_file, file, io), file, file', io))
    /\ UNCHANGED <<agent_vars, brain_file, constructed, input_items,
                   frame_vars>>

AgentFetchMemory == AgentFetchMemoryIo(Succeeding)

\* Agent.write_memory(content)
AgentWriteMemoryIo(IO) ==
    /\ "agent" \in constructed
    /\ \E content \in Contents, io \in IO :
        /\ file' = write_memory_file(brain_file, file, content, io)
        /\ Len(file'.data) <= MaxFileLen
        /\ mem_hist' = Remember(mem_hist,
               MemCall("agent", "write_memory", content, "none",
                       write_memory(brain_file, content), file, file', io))
    /\ UNCHANGED <<agent_vars, brain_file, constructed, input_items,
                   frame_vars>>

AgentWriteMemory == AgentWriteMemoryIo(Succeeding)

MemNext ==
    \/ ProviderInit
    \/ AgentInit
    \/ ProviderHandleCall
    \/ AgentFetchMemory
    \/ AgentWriteMemory

MemSpec == MemInit /\ [][MemNext]_vars

(***************************************************************************)
(* Memory I/O that may fail: a turn of an Agent with a memory file and no   *)
(* computer, where the file operations of each call succeed or fail, or    *)
(* direct calls of the memory operations (pc = "idle") on a file whose     *)
(* every operation fails.                                                  *)
(***************************************************************************)
\* The memory file is the one the constructors left, or is absent, removed
\* since.
FaultInit ==
    \/ Init /\ brain_file /\ ~computer.present /\ ~debug
    \/ /\ computer = [present |-> FALSE, environment |-> "none", slotnames |-> FALSE]
       /\ brain_file = TRUE
       /\ debug = FALSE
       /\ file \in {touch(Absent), Absent}
                    \cup {[exists |-> TRUE, data |-> d] : d \in InitialData}
       /\ new_items = <<>>
       /\ response = <<>>
       /\ idx = 1
       /\ pc = "idle"
       /\ error = "none"
       /\ log = <<>>
       /\ last_resp = "none"
       /\ rejected = 0
       /\ constructed = {"agent", "provider"}
       /\ mem_hist = <<>>
       /\ input_items = <<>>
       /\ context = <<>>
       /\ file0 = file
       /\ providers = <<>>
       /\ heap = <<>>
       /\ agents = <<>>
       /\ tools_sent = NothingSent
       /\ print_steps = TRUE
       /\ acknowledge_safety_check_callback = "supplied"

MaxFaultCalls == 1   \* direct memory calls on the failing file

FaultHandleItem == HandleItemIo(Faulty)
FaultProviderHandleCall ==
    pc = "idle" /\ Len(mem_hist) < MaxFaultCalls /\ ProviderHandleCallIo(Failing)
FaultAgentFetchMemory ==
    pc = "idle" /\ Len(mem_hist) < MaxFaultCalls /\ AgentFetchMemoryIo(Failing)
FaultAgentWriteMemory ==
    pc = "idle" /\ Len(mem_hist) < MaxFaultCalls /\ AgentWriteMemoryIo(Failing)

FaultNext ==
    \/ CallModel
    \/ FaultHandleItem
    \/ Return
    \/ FaultProviderHandleCall
    \/ FaultAgentFetchMemory
    \/ FaultAgentWriteMemory

FaultSpec == FaultInit /\ [][FaultNext]_vars

(***************************************************************************)
(* The tool lists of Agents.  A tool list is a Python list object: heap[l] *)
(* is the content of list l, a sequence of descriptor names, and heap[1]   *)
(* is the list the default tools=[] was evaluated to when __init__ was     *)
(* defined.  An agent holds the identity of its list, and, as history, the *)
(* content the list had when its construction ended.                       *)
(***************************************************************************)
MaxAgents == 3       \* Agents constructed

\* The lists a caller passes as tools.
CallerTools == {<<>>, <<"custom">>}

\* The descriptors __init__ adds to self.tools, lines 36-44 and 47-80.
added_tools(c, bf) ==
    (IF c THEN <<"computer-preview">> ELSE <<>>)
        \o (IF bf THEN <<"fetch_memory", "write_memory">> ELSE <<>>)

ToolsInit ==
    /\ computer = [present |-> FALSE, environment |-> "none", slotnames |-> FALSE]
    /\ brain_file = FALSE
    /\ debug = FALSE
    /\ file = Absent
    /\ new_items = <<>>
    /\ response = <<>>
    /\ idx = 1
    /\ pc = "idle"
    /\ error = "none"
    /\ log = <<>>
    /\ last_resp = "none"
    /\ rejected = 0
    /\ constructed = {}
    /\ mem_hist = <<>>
    /\ input_items = <<>>
    /\ context = <<>>
    /\ file0 = file
    /\ providers = <<>>
    /\ heap = <<<<>>>>
    /\ agents = <<>>
    /\ tools_sent = NothingSent
    /\ print_steps = TRUE
    /\ acknowledge_safety_check_callback = "supplied"

\* Agent(computer=..., tools=..., brain_file=...): self.tools is the list
\* passed (or the default list), and += extends that list in place.
NewAgent ==
    /\ Len(agents) < MaxAgents
    /\ \E c \in BOOLEAN, bf \in BOOLEAN, default \in BOOLEAN,
          given \in CallerTools :
        LET l == IF default THEN 1 ELSE Len(heap) + 1
            passed == IF default THEN heap ELSE Append(heap, given)
            after == [passed EXCEPT ![l] = @ \o added_tools(c, bf)]
        IN /\ heap' = after
           /\ agents' = Append(agents, [tools |-> l, built |-> after[l]])
           /\ file' = IF bf THEN touch(file) ELSE file
    /\ UNCHANGED <<agent_vars, mem_vars, brain_file, input_items, file0,
                   providers, tools_sent, print_steps,
                   acknowledge_safety_check_callback>>

\* create_response(..., tools=self.tools, ...) of agent a, lines 198-203.
SendTools ==
    /\ \E a \in 1..Len(agents) :
        tools_sent' = [agent |-> a, tools |-> heap[agents[a].tools]]
    /\ UNCHANGED <<agent_vars, mem_vars, brain_file, file, input_items, file0,
                   providers, heap, agents, print_steps,
                   acknowledge_safety_check_callback>>

ToolsNext == NewAgent \/ SendTools

ToolsSpec == ToolsInit /\ [][ToolsNext]_vars

(***************************************************************************)
(* The dispatch of function_call items: the for loop of run_full_turn over *)
(* one response, for an Agent beside which the caller built memory         *)
(* providers (cli.py lines 74-77), each on a memory file of its own.       *)
(***************************************************************************)
DispatchTemplates ==
    {FunctionCall("fetch_memory", ArgsEmpty),
     FunctionCall("write_memory", ArgsA),
     FunctionCall("click", ArgsA),
     FunctionCall("back", ArgsEmpty),
     FunctionCall("screenshot", ArgsEmpty),
     FunctionCall("__getstate__", ArgsEmpty),
     FunctionCall("__slotnames__", ArgsEmpty),
     FunctionCall("frobnicate", ArgsEmpty)}

\* The memory files of the providers.
ProviderFiles ==
    {[exists |-> TRUE, data |-> <<"a">>], [exists |-> TRUE, data |-> <<"a", "a">>]}

DispatchInit ==
    /\ computer \in Computers
    /\ brain_file \in BOOLEAN
    /\ debug = FALSE
    /\ file \in IF brain_file
                THEN {touch(Absent), touch([exists |-> TRUE, data |-> <<"a">>])}
                ELSE {Absent}
    /\ response \in {WithIds(o, 0) :
                        o \in SeqsUpTo(DispatchTemplates, MaxItems) \ {<<>>}}
    /\ new_items = response
    /\ idx = 1
    /\ pc = "dispatch"
    /\ error = "none"
    /\ log = <<Event("create_response", "none")>>
    /\ last_resp = "items"
    /\ rejected = 0
    /\ constructed = {"agent"}
    /\ mem_hist = <<>>
    /\ input_items = <<UserMessage>>
    /\ context = input_items
    /\ file0 = file
    /\ providers \in SeqsUpTo(ProviderFiles, 2)
    /\ heap = <<>>
    /\ agents = <<>>
    /\ tools_sent = NothingSent
    /\ print_steps = TRUE
    /\ acknowledge_safety_check_callback = "supplied"

DispatchNext == HandleItem

DispatchSpec == DispatchInit /\ [][DispatchNext]_vars

(***************************************************************************)
(* The history of a conversation: main of cli.py from its start, and a     *)
(* turn of run_full_turn for a caller that built the Agent as              *)
(* Agent.__init__ allows, with a browser computer and no memory file.      *)
(***************************************************************************)
\* The items the model's responses hold.
CliTemplates ==
    {Message, Reasoning,
     FunctionCall("back", ArgsEmpty),
     ComputerCall("navigate", <<>>)}

\* The model call of a turn.
CliCallModel == CallModelOf(CliTemplates)

\* main is entered, cli.py line 19: nothing is constructed yet; computer is
\* the backend --computer selects, file the file --memory-file may name.
CliInit ==
    /\ computer \in {c \in Computers : c.present}
    /\ brain_file = FALSE
    /\ debug \in BOOLEAN
    /\ file \in {Absent, [exists |-> TRUE, data |-> <<"a">>]}
    /\ new_items = <<>>
    /\ response = <<>>
    /\ idx = 1
    /\ pc = "main"
    /\ error = "none"
    /\ log = <<>>
    /\ last_resp = "none"
    /\ rejected = 0
    /\ constructed = {}
    /\ mem_hist = <<>>
    /\ input_items = <<>>
    /\ context = <<>>
    /\ file0 = file
    /\ providers = <<>>
    /\ heap = <<>>
    /\ agents = <<>>
    /\ tools_sent = NothingSent
    /\ print_steps = TRUE
    /\ acknowledge_safety_check_callback = "supplied"

\* main up to the construction of the Agent, lines 63-84: with --memory-file
\* a FileMemoryProvider is built, which creates the file; the backend is
\* entered; Agent(computer=..., acknowledge_safety_check_callback=...,
\* memory_providers=...) raises TypeError, Agent.__init__ (agent.py lines
\* 20-27) having no parameter memory_providers.  Lines 85-109 are not reached.
CliMain ==
    /\ pc = "main"
    /\ \E memory_file \in BOOLEAN :
          /\ file' = IF memory_file THEN touch(file) ELSE file
          /\ providers' = IF memory_file THEN <<touch(file)>> ELSE <<>>
          /\ constructed' = IF memory_file THEN {"provider"} ELSE {}
    /\ pc' = "raised"
    /\ error' = "TypeError"
    /\ UNCHANGED <<computer, brain_file, debug, new_items, response, idx, log,
                   last_resp, rejected, mem_hist, input_items, context, file0,
                   heap, agents, tools_sent, print_steps,
                   acknowledge_safety_check_callback>>

\* main at its start, or a turn entered by a caller of run_full_turn.
HistoryInit ==
    \/ CliInit
    \/ /\ Init
       /\ computer = [present |-> TRUE, environment |-> "browser", slotnames |-> FALSE]
       /\ ~brain_file
       /\ ~debug
       /\ acknowledge_safety_check_callback = "supplied"

HistoryNext ==
    \/ CliMain
    \/ CliCallModel
    \/ HandleItem
    \/ Return

HistorySpec == HistoryInit /\ [][HistoryNext]_vars

(***************************************************************************)
(* Properties of run_full_turn (checked under Spec).                       *)
(***************************************************************************)
Last(seq) == seq[Len(seq)]
Types(items) == [i \in 1..Len(items) |-> items[i].type]
ModelCalls == CountEv(log, "create_response")

\* The outputs in items that answer the call at position i.
Answers(items, i) ==
    {j \in 1..Len(items) :
        /\ items[j].type = OutputTypeOf(items[i].type)
        /\ items[j].call_id = items[i].call_id}

\* C1: whenever run_full_turn returns normally, the returned accumulator is
\* non-empty and its last item is an assistant-role message.
C1_ReturnsAssistantMessage ==
    pc = "returned" =>
        /\ new_items # <<>>
        /\ Last(new_items).type = "message"
        /\ Last(new_items).role = "assistant"

C1_Witness ==
    /\ pc = "returned"
    /\ Len(new_items) = 3
    /\ new_items[1].type = "function_call"

\* C2: at every model call after the first and at normal return, every
\* function_call and computer_call in the accumulator is answered by exactly
\* one output item of the matching kind with the same call identifier, placed
\* after it, and every output item answers an earlier call item.
C2_CallsAnsweredOnce ==
    (pc \in {"loop", "returned"} /\ ModelCalls > 0) =>
        /\ \A i \in 1..Len(new_items) :
               new_items[i].type \in CallTypes =>
                   /\ Cardinality(Answers(new_items, i)) = 1
                   /\ \A j \in Answers(new_items, i) : j > i
        /\ \A j \in 1..Len(new_items) :
               new_items[j].type \in OutputTypes =>
                   \E i \in 1..(j - 1) :
                       /\ new_items[i].type \in CallTypes
                       /\ j \in Answers(new_items, i)

C2_Witness ==
    /\ pc = "loop"
    /\ ModelCalls = 2
    /\ \E i, j \in 1..Len(new_items) :
           /\ new_items[i].type = "function_call"
           /\ new_items[i].name = "frobnicate"
           /\ new_items[j].type = "computer_call"

\* The computer_call actions the backend has run: each is followed by one
\* screenshot, and the action of kind screenshot is itself a screenshot.
ActionsRun(lg) == (CountEv(lg, "action") + CountEv(lg, "screenshot")) \div 2

\* C3: when the acknowledgment predicate rejects a pending safety check of a
\* computer_call, the run has failed with the safety-check error, no
\* computer_call_output for that call is in the accumulator, the for loop
\* still stands at the rejected item, and the rejecting acknowledgment is the
\* last thing that ever happened: no backend action, no model call, no retry.
C3_RejectionStopsRun ==
    rejected # 0 =>
        /\ pc = "raised"
        /\ error = "SafetyCheckFailed"
        /\ \A j \in 1..Len(new_items) :
               ~(new_items[j].type = "computer_call_output"
                 /\ new_items[j].call_id = rejected)
        /\ response[idx].call_id = rejected
        /\ Last(log).ev = "ack"
        /\ ActionsRun(log)
             = Cardinality({j \in 1..Len(new_items) :
                               new_items[j].type = "computer_call_output"}) + 1

C3_Witness ==
    /\ rejected # 0
    /\ pc = "raised"
    /\ idx < Len(response)
    /\ Len(response[idx].checks) = 2
    /\ CountEv(log, "ack") = 2

\* C4: a model response without the output field ends the turn with an error
\* in debug and non-debug mode alike; nothing is appended for that response
\* and the model call that returned it is the last thing that happened.
C4_MissingOutputRaises ==
    /\ [](last_resp = "missing" =>
            /\ pc = "raised"
            /\ error = (IF debug THEN "NoModelOutput" ELSE "KeyError")
            /\ Last(log).ev = "create_response")
    /\ [][last_resp' = "missing" => new_items' = new_items]_vars

C4_Witness ==
    /\ last_resp = "missing"
    /\ ~debug
    /\ pc = "raised"
    /\ error = "KeyError"
    /\ new_items # <<>>

\* C5: a response whose output holds zero items is fatal: the run has raised.
C5_EmptyOutputIsFatal == last_resp = "empty" => pc = "raised"

\* The loop spinning on empty outputs: the model is called again and again
\* while the accumulator stays empty.
C5_Spinning ==
    /\ pc = "loop"
    /\ new_items = <<>>
    /\ ModelCalls = MaxModelCalls
    /\ error = "none"

Navigate(id) == [ComputerCall("navigate", <<>>) EXCEPT !.call_id = id]

\* The model has returned one navigate computer_call and then an assistant
\* message, every item has been dispatched and nothing was raised.
NavigateThenMessage ==
    /\ pc \in {"loop", "returned"}
    /\ Received(new_items) = <<Navigate(1), Message>>

NavigateDone ==
    /\ Types(new_items) = <<"computer_call", "computer_call_output", "message">>
    /\ new_items[2].call_id = 1
    /\ ~loop_condition(new_items)
    /\ CountEv(log, "action") = 1
    /\ CountEv(log, "screenshot") = 1

\* C6 as claimed: navigate then message, in one response or in two, ends the
\* turn with (computer_call, computer_call_output, message).
C6_Original == NavigateThenMessage => NavigateDone

\* C6 amended: when the message arrives in a later response than the
\* computer_call, the action is invoked once, one screenshot is taken, the
\* accumulator is (computer_call, computer_call_output, message) and the loop
\* ends without another model call; when both arrive in one response the
\* accumulator is (computer_call, message, computer_call_output) and the loop
\* goes on to another model call.
C6_NavigateThenMessage ==
    NavigateThenMessage =>
        /\ CountEv(log, "action") = 1
        /\ CountEv(log, "screenshot") = 1
        /\ Cardinality(Answers(new_items, 1)) = 1
        /\ IF Message \in {new_items[i] : i \in 1..2}
           THEN /\ Types(new_items)
                     = <<"computer_call", "message", "computer_call_output">>
                /\ loop_condition(new_items)
                /\ pc = "loop"
           ELSE NavigateDone

C6_Witness ==
    /\ pc = "returned"
    /\ ModelCalls = 2
    /\ Received(new_items) = <<Navigate(1), Message>>
    /\ computer.environment = "browser"

(***************************************************************************)
(* Unknown functions.                                                      *)
(***************************************************************************)
\* The memory tools the agent was configured with.
MemoryTools(bf) == IF bf THEN {"fetch_memory", "write_memory"} ELSE {}

\* The backend's methods: its action methods and its operations.
BackendMethods(c) ==
    IF c.present THEN ComputerMethods \cup ComputerOperations(c) ELSE {}

Unresolved(name) ==
    name \notin MemoryTools(brain_file) \cup BackendMethods(computer)

\* C7: a function_call whose name matches no configured memory tool and no
\* backend method does not raise and is answered by exactly one
\* function_call_output with its call identifier and a null output.
C7_UnknownFunctionNull ==
    /\ (pc = "raised" /\ idx <= Len(response)
        /\ response[idx].type = "function_call"
        /\ json_loads(response[idx].arguments).ok)
           => ~Unresolved(response[idx].name)
    /\ pc \in {"loop", "returned"} =>
           \A i \in 1..Len(new_items) :
               (new_items[i].type = "function_call"
                /\ Unresolved(new_items[i].name)) =>
                   /\ Cardinality(Answers(new_items, i)) = 1
                   /\ \A j \in Answers(new_items, i) :
                          new_items[j].output = NullOutput

\* C7 for the names the agent does not hard-wire to its memory methods.
C7_OtherNamesNull ==
    pc \in {"loop", "returned"} =>
        \A i \in 1..Len(new_items) :
            (new_items[i].type = "function_call"
             /\ new_items[i].name \notin {"fetch_memory", "write_memory"}
             /\ Unresolved(new_items[i].name)) =>
                /\ Cardinality(Answers(new_items, i)) = 1
                /\ \A j \in Answers(new_items, i) :
                       new_items[j].output = NullOutput

(***************************************************************************)
(* Properties of the memory operations (checked under MemSpec).            *)
(***************************************************************************)
IsCall(h, op) == h.op = op

\* C8: write_memory(content) returns content, and a fetch_memory right after
\* it returns the content fetched before the write, a newline, and content.
C8_RoundTrip ==
    /\ \A i \in 1..Len(mem_hist) :
           IsCall(mem_hist[i], "write_memory") =>
               mem_hist[i].value = mem_hist[i].arg
    /\ \A i \in 1..(Len(mem_hist) - 1) :
           (IsCall(mem_hist[i], "write_memory")
            /\ IsCall(mem_hist[i + 1], "fetch_memory")) =>
               mem_hist[i + 1].value
                 = read_text(mem_hist[i].before.data) \o <<LF>> \o mem_hist[i].arg

\* C8 for content and stores free of carriage returns.
C8_RoundTripNoCR ==
    \A i \in 1..(Len(mem_hist) - 1) :
        (/\ IsCall(mem_hist[i], "write_memory")
         /\ IsCall(mem_hist[i + 1], "fetch_memory")
         /\ \A k \in 1..Len(mem_hist[i].after.data) :
                mem_hist[i].after.data[k] # CR) =>
            /\ mem_hist[i].value = mem_hist[i].arg
            /\ mem_hist[i + 1].value
                 = read_text(mem_hist[i].before.data) \o <<LF>> \o mem_hist[i].arg

\* C9: fetch_memory leaves the store as it was, two fetches with no write
\* between them return the same content, and a fetch directly after the
\* construction that created the store finds it and returns the empty text.
C9_FetchIdempotent ==
    /\ \A i \in 1..Len(mem_hist) :
           IsCall(mem_hist[i], "fetch_memory") =>
               /\ mem_hist[i].after = mem_hist[i].before
               /\ mem_hist[i].raised = "none"
    /\ \A i \in 1..(Len(mem_hist) - 1) :
           /\ (IsCall(mem_hist[i], "fetch_memory")
               /\ IsCall(mem_hist[i + 1], "fetch_memory")) =>
                  mem_hist[i + 1].value = mem_hist[i].value
           /\ (IsCall(mem_hist[i], "__init__")
               /\ ~mem_hist[i].before.exists
               /\ IsCall(mem_hist[i + 1], "fetch_memory")) =>
                  /\ mem_hist[i].after.exists
                  /\ mem_hist[i + 1].value = EmptyText
    /\ constructed # {} => file.exists

C9_Witness ==
    /\ Len(mem_hist) >= 2
    /\ IsCall(mem_hist[Len(mem_hist) - 1], "fetch_memory")
    /\ IsCall(mem_hist[Len(mem_hist)], "fetch_memory")
    /\ mem_hist[Len(mem_hist) - 1].obj # mem_hist[Len(mem_hist)].obj
    /\ Len(mem_hist[Len(mem_hist)].value) >= 3

\* C10: FileMemoryProvider.handle_call with a name other than fetch_memory and
\* write_memory raises the unsupported-operation error, returns nothing and
\* leaves the memory store unchanged.
C10_UnknownNameRaises ==
    \A i \in 1..Len(mem_hist) :
        (/\ mem_hist[i].obj = "provider"
         /\ mem_hist[i].op \notin {"__init__", "fetch_memory", "write_memory"}) =>
            /\ mem_hist[i].raised = "ValueError"
            /\ mem_hist[i].value = EmptyText
            /\ mem_hist[i].after = mem_hist[i].before

C10_Witness ==
    /\ mem_hist # <<>>
    /\ IsCall(Last(mem_hist), "delete_memory")
    /\ Last(mem_hist).arg # <<>>
    /\ Len(file.data) >= 2

(***************************************************************************)
(* The context of the model calls and the failures of a turn (checked      *)
(* under Spec).                                                            *)
(***************************************************************************)
\* What a fetch of the configured memory gives when the turn begins.
MemoryAtStart == fetch_memory(brain_file, file0, NoFault)

\* C11: at every model call of a turn that began with a configured memory
\* whose fetch gives non-empty content, the context sent to the model begins
\* with a system-role item, ahead of the caller-supplied input items.
C11_MemoryInjected ==
    (ModelCalls > 0 /\ MemoryAtStart # EmptyText) =>
        /\ context # <<>>
        /\ context[1].role = "system"

\* The model is called with the caller's items first though the memory holds
\* content.
C11_NotInjected ==
    /\ ModelCalls > 1
    /\ MemoryAtStart # EmptyText
    /\ context = input_items \o new_items
    /\ context[1] = UserMessage

\* C12: a function_call with malformed arguments aborts the processing of that
\* item only: the run is not ended by the malformed-arguments error, so the
\* accumulated items are kept and the remaining items can be processed.
C12_MalformedAbortsItemOnly ==
    ~(pc = "raised" /\ error = "JSONDecodeError")

\* The malformed-arguments error has ended the run with accumulated items and
\* an item still to process; nothing was done for the malformed call.
C12_RunAborted ==
    /\ pc = "raised"
    /\ error = "JSONDecodeError"
    /\ idx < Len(response)
    /\ new_items # <<>>
    /\ file = file0
    /\ CountEv(log, "method") = 0

(***************************************************************************)
(* Properties of the dispatch of one item (checked under Spec): each is    *)
(* about the step that handles response[idx].                              *)
(***************************************************************************)
\* What the step appends to the log of environment calls.
LogDelta == SubSeq(log', Len(log) + 1, Len(log'))
\* What the step appends to the accumulator.
ItemsDelta == SubSeq(new_items', Len(new_items) + 1, Len(new_items'))
\* The step dispatches a computer_call.
DispatchesAnyComputerCall ==
    /\ pc = "dispatch"
    /\ response[idx].type = "computer_call"

\* The step dispatches a computer_call whose action kind is one of the
\* actions of the configured backend.
DispatchesComputerCall ==
    /\ DispatchesAnyComputerCall
    /\ computer.present
    /\ response[idx].name \in ComputerMethods \cup {"screenshot"}

\* The step dispatches a computer_call with no backend configured, or whose
\* action kind is no attribute of the backend.
DispatchesUnknownAction ==
    /\ DispatchesAnyComputerCall
    /\ ~computer.present \/ ~hasattr_computer(computer, response[idx].name)

\* The backend event of the action of kind name.
ActionEvent(name) ==
    IF name = "screenshot" THEN Event("screenshot", "none")
    ELSE Event("action", name)

\* The actions and screenshots among the events d.
BackendCalls(d) == SelectSeq(d, LAMBDA e : e.ev \in {"action", "screenshot"})

\* The acknowledgment requests among the events d.
Acks(d) == SelectSeq(d, LAMBDA e : e.ev = "ack")

\* The action is invoked once and then one screenshot is captured, both
\* before any acknowledgment is asked for.
ActsThenShoots ==
    /\ Len(LogDelta) >= 2
    /\ LogDelta[1] = ActionEvent(response[idx].name)
    /\ LogDelta[2] = Event("screenshot", "none")
    /\ BackendCalls(LogDelta) = SubSeq(LogDelta, 1, 2)
    /\ \A k \in 1..Len(LogDelta) : LogDelta[k].ev = "ack" => k > 2
    /\ error' = "SafetyCheckFailed" => Len(BackendCalls(LogDelta)) = 2

\* The dispatch of a message or of an item of another kind calls nothing and
\* appends nothing.
OtherItemsDoNothing ==
    (pc = "dispatch"
       /\ response[idx].type \notin {"function_call", "computer_call"}) =>
        /\ log' = log
        /\ new_items' = new_items
        /\ file' = file

\* C16 as claimed: the dispatch of every computer_call invokes the backend
\* action named by the call exactly once and then captures exactly one
\* screenshot, both before the acknowledgment callback is asked about any
\* safety check, so that a rejected check leaves the action executed; the
\* dispatch of a message or of an item of another kind calls nothing and
\* appends nothing.
C16_EveryCallActs ==
    [][/\ DispatchesAnyComputerCall => ActsThenShoots
       /\ OtherItemsDoNothing
      ]_vars

\* C16, amended: as claimed for every computer_call whose action kind is one
\* of the actions of the configured backend; a computer_call dispatched with
\* no backend configured, or whose action kind is no attribute of the
\* backend, raises a missing-attribute or not-callable error with no
\* screenshot captured, no acknowledgment asked for and no output item.
C16_ActionThenScreenshot ==
    [][/\ DispatchesComputerCall => ActsThenShoots
       /\ DispatchesUnknownAction =>
            /\ pc' = "raised"
            /\ error' \in {"AttributeError", "TypeError"}
            /\ BackendCalls(LogDelta) = <<>>
            /\ Acks(LogDelta) = <<>>
            /\ new_items' = new_items
       /\ OtherItemsDoNothing
      ]_vars

\* A second safety check was rejected after the action and the screenshot.
C16_Witness ==
    /\ pc = "raised"
    /\ error = "SafetyCheckFailed"
    /\ Len(log) >= 4
    /\ log[Len(log) - 3].ev = "action"
    /\ log[Len(log) - 2].ev = "screenshot"
    /\ log[Len(log) - 1].ev = "ack"
    /\ Last(log).ev = "ack"

\* The callback is asked about the pending checks one by one in list order,
\* with the check's message, up to the first one it rejects, which ends the
\* run.
AsksInOrder ==
    LET item == response[idx]
        asked == Acks(LogDelta)
    IN /\ Len(asked) <= Len(item.checks)
       /\ \A i \in 1..Len(asked) :
             /\ asked[i].name = item.checks[i]
             /\ i < Len(asked) => asked[i].answer
       /\ (asked # <<>> /\ ~Last(asked).answer) =>
             /\ pc' = "raised"
             /\ error' = "SafetyCheckFailed"
             /\ Last(LogDelta) = Last(asked)
             /\ ItemsDelta = <<>>
       /\ (asked = <<>> \/ Last(asked).answer) => Len(asked) = Len(item.checks)

\* No check of the call is rejected.
AllAcknowledged ==
    \A k \in 1..Len(Acks(LogDelta)) : Acks(LogDelta)[k].answer

\* Exactly one computer_call_output is appended, with the full list of pending
\* checks as acknowledged and the screenshot captured for this call.
OneOutput ==
    /\ Len(ItemsDelta) = 1
    /\ ItemsDelta[1].type = "computer_call_output"
    /\ ItemsDelta[1].call_id = response[idx].call_id
    /\ ItemsDelta[1].checks = response[idx].checks
    /\ ItemsDelta[1].output.kind = "image"
    /\ ItemsDelta[1].output.shot = CountEv(log', "screenshot")
    /\ Len(LogDelta) >= 2
    /\ LogDelta[2] = Event("screenshot", "none")
    /\ CountEv(SubSeq(LogDelta, 3, Len(LogDelta)), "screenshot") = 0

\* The page URL the step fetched is on the blocklist.
UrlBlocked ==
    \E k \in 1..Len(LogDelta) :
        /\ LogDelta[k].ev = "get_current_url"
        /\ check_blocklisted_url(LogDelta[k].name) # "none"

\* C17: the dispatch of a computer_call whose action the configured backend
\* runs asks the acknowledgment callback about the pending checks one by one
\* in list order, passing the check's message, and stops at the first one it
\* rejects; when every check is acknowledged (none is asked when there is
\* none) exactly one computer_call_output is appended, with the full list of
\* pending checks as acknowledged and the screenshot captured for this call as
\* output, unless the current URL of a browser is on the blocklist, which
\* raises with no output appended.
C17_ChecksInOrderThenOutput ==
    [][DispatchesComputerCall =>
          /\ AsksInOrder
          /\ AllAcknowledged =>
                IF UrlBlocked
                THEN /\ computer.environment = "browser"
                     /\ pc' = "raised"
                     /\ error' = "BlockedURL"
                     /\ ItemsDelta = <<>>
                ELSE pc' # "raised" /\ OneOutput
      ]_vars

\* The default callback was called with the message of a pending check: the
\* run ended with TypeError after the action and the screenshot, no answer was
\* given and the call has no output.
C17_DefaultCallbackRaises ==
    /\ acknowledge_safety_check_callback = "default"
    /\ pc = "raised"
    /\ error = "TypeError"
    /\ response[idx].type = "computer_call"
    /\ response[idx].checks # <<>>
    /\ Len(log) >= 2
    /\ log[Len(log) - 1] = Event("action", response[idx].name)
    /\ Last(log) = Event("screenshot", "none")
    /\ Acks(log) = <<>>
    /\ \A j \in 1..Len(new_items) :
           ~(new_items[j].type = "computer_call_output"
             /\ new_items[j].call_id = response[idx].call_id)

\* The current URL fetches among the events of the step.
Fetched == SelectSeq(LogDelta, LAMBDA e : e.ev = "get_current_url")

\* The URL is fetched once, after everything else, and checked against the
\* blocklist: a blocked URL raises and no output is appended, an allowed URL
\* is attached to the one output appended.
UrlFetchedAndChecked ==
    /\ Len(Fetched) = 1
    /\ Last(LogDelta) = Fetched[1]
    /\ IF check_blocklisted_url(Fetched[1].name) # "none"
       THEN /\ pc' = "raised"
            /\ error' = check_blocklisted_url(Fetched[1].name)
            /\ new_items' = new_items
       ELSE /\ pc' # "raised"
            /\ Len(ItemsDelta) = 1
            /\ ItemsDelta[1].type = "computer_call_output"
            /\ ItemsDelta[1].output.url = Fetched[1].name

\* The URL is not fetched and an output appended has no current_url.
UrlNotFetched ==
    /\ Fetched = <<>>
    /\ \A k \in 1..Len(ItemsDelta) : ItemsDelta[k].output.url = "none"

\* The step dispatches a computer_call whose action the backend runs and whose
\* pending checks are all acknowledged.
DispatchesAcknowledged ==
    /\ DispatchesComputerCall
    /\ Len(Acks(LogDelta)) = Len(response[idx].checks)
    /\ AllAcknowledged

\* The step dispatches a computer_call whose action the backend runs and one
\* of whose pending checks is not acknowledged: the callback rejects it, or
\* fails.
DispatchesUnacknowledged ==
    /\ DispatchesComputerCall
    /\ ~DispatchesAcknowledged

\* C18 as claimed: in a browser environment the dispatch of a computer_call
\* fetches the current URL and checks it against the blocklist: a blocked URL
\* raises and no computer_call_output is appended, an allowed URL is attached
\* to the output as current_url.  In another environment the URL is not
\* fetched and the output has no current_url.
C18_UrlAlwaysFetched ==
    [][DispatchesAnyComputerCall =>
          IF computer.environment = "browser"
          THEN UrlFetchedAndChecked ELSE UrlNotFetched
      ]_vars

\* C18, amended: as claimed for a computer_call whose action kind is one of
\* the actions of the backend and whose pending checks are all acknowledged,
\* the output being appended in the other environments too; when a check of
\* such a call is not acknowledged, the callback rejecting it or failing, the
\* URL is not fetched in any environment and no output is appended.
C18_UrlCheckedInBrowser ==
    [][/\ DispatchesAcknowledged =>
            IF computer.environment = "browser"
            THEN UrlFetchedAndChecked
            ELSE /\ UrlNotFetched
                 /\ pc' # "raised"
                 /\ Len(ItemsDelta) = 1
                 /\ ItemsDelta[1].type = "computer_call_output"
       /\ DispatchesUnacknowledged =>
            /\ UrlNotFetched
            /\ pc' = "raised"
            /\ error' \in {"SafetyCheckFailed", "TypeError"}
            /\ ItemsDelta = <<>>
      ]_vars

\* A first computer_call got its output with the allowed URL and a second one
\* ended the run on a blocked URL, leaving no output for it.
C18_Witness ==
    /\ computer.environment = "browser"
    /\ pc = "raised"
    /\ error \notin {"none", "SafetyCheckFailed"}
    /\ Last(log).ev = "get_current_url"
    /\ Last(log).name \in BlockedUrls
    /\ \E j \in 1..Len(new_items) :
           /\ new_items[j].type = "computer_call_output"
           /\ new_items[j].output.url \in Urls \ BlockedUrls
    /\ Cardinality({j \in 1..Len(new_items) :
                        new_items[j].type = "computer_call"}) = 2
    /\ Cardinality({j \in 1..Len(new_items) :
                        new_items[j].type = "computer_call_output"}) = 1

(***************************************************************************)
(* Memory I/O failures (checked under FaultSpec).                          *)
(***************************************************************************)
\* after is before with a part of the text of the write appended.
Extended(before, after, content) ==
    /\ before.exists => after.exists
    /\ \E k \in 0..(Len(content) + 1) :
           after.data = before.data \o SubSeq(<<LF>> \o content, 1, k)

\* A memory call made directly raised nothing and returned what the failure
\* rules say.
FaultTolerantCall(call) ==
    /\ call.op = "fetch_memory" =>
          /\ call.raised = "none"
          /\ call.after = call.before
          /\ call.value = IF call.io.ok /\ call.before.exists
                          THEN read_text(call.before.data) ELSE EmptyText
    /\ call.op = "write_memory" =>
          /\ call.raised = "none"
          /\ call.value = call.arg

FailedWrite(call) == call.op = "write_memory" /\ ~call.io.ok

\* The step dispatches a memory function_call whose file operation fails.
DispatchFails(name) ==
    /\ pc = "dispatch"
    /\ response[idx].type = "function_call"
    /\ LogDelta = <<Event("io_error", name)>>

\* The failed dispatch of a fetch_memory call answers with the empty value.
FailedFetchAnswered ==
    DispatchFails("fetch_memory") =>
        /\ pc' \in {"dispatch", "loop"}
        /\ file' = file
        /\ ItemsDelta = <<FunctionCallOutput(response[idx].call_id,
                                             StrOutput(EmptyText))>>

\* The failed dispatch of a write_memory call answers with the content.
FailedWriteAnswered ==
    DispatchFails("write_memory") =>
        /\ pc' \in {"dispatch", "loop"}
        /\ ItemsDelta = <<FunctionCallOutput(response[idx].call_id,
                StrOutput(json_loads(response[idx].arguments).content))>>

\* C19 as claimed: a memory I/O failure never aborts a turn.  A fetch_memory
\* whose read fails returns the empty value and raises nothing; a write_memory
\* whose write fails raises nothing, leaves the file as it was and returns the
\* content it was given; in a turn the function_call_output is appended in
\* both cases and the loop goes on.
C19_MemoryFailuresSwallowed ==
    /\ [](\A k \in 1..Len(mem_hist) :
              /\ FaultTolerantCall(mem_hist[k])
              /\ FailedWrite(mem_hist[k]) =>
                     mem_hist[k].after = mem_hist[k].before)
    /\ [][/\ FailedFetchAnswered
          /\ FailedWriteAnswered
          /\ DispatchFails("write_memory") => file' = file
         ]_vars

\* C19, amended: as claimed, except that a write_memory whose write fails
\* leaves the file holding what it held followed by a part, which may be
\* empty, of the newline and content it was writing.
C19_FailuresSwallowedLossy ==
    /\ [](\A k \in 1..Len(mem_hist) :
              /\ FaultTolerantCall(mem_hist[k])
              /\ FailedWrite(mem_hist[k]) =>
                     Extended(mem_hist[k].before, mem_hist[k].after,
                              mem_hist[k].arg))
    /\ [][/\ FailedFetchAnswered
          /\ FailedWriteAnswered
          /\ DispatchFails("write_memory") =>
                Extended(file, file',
                         json_loads(response[idx].arguments).content)
         ]_vars

\* A fetch and a write both failed in a turn, the write after its newline had
\* reached the file: both outputs were appended and the loop is about to call
\* the model again.
C19_Witness ==
    /\ pc = "loop"
    /\ file0.data # <<>>
    /\ file.data = file0.data \o <<LF>>
    /\ \E k \in 1..Len(log) : log[k] = Event("io_error", "fetch_memory")
    /\ \E k \in 1..Len(log) : log[k] = Event("io_error", "write_memory")
    /\ \E j \in 1..Len(new_items) :
           /\ new_items[j].type = "function_call_output"
           /\ new_items[j].output = StrOutput(EmptyText)
    /\ \E j \in 1..Len(new_items) :
           /\ new_items[j].type = "function_call_output"
           /\ new_items[j].output = StrOutput(<<"a">>)

(***************************************************************************)
(* The tool set of an Agent (checked under ToolsSpec).                     *)
(***************************************************************************)
Occurrences(tools, name) == Len(SelectSeq(tools, LAMBDA t : t = name))

\* C13: the tools an Agent passes to the model are those it had when its
\* construction ended, with the computer descriptor at most once and each
\* memory descriptor at most once, whatever other Agents were constructed
\* since.
C13_ToolsFixed ==
    tools_sent.agent # 0 =>
        /\ tools_sent.tools = agents[tools_sent.agent].built
        /\ \A name \in {"computer-preview", "fetch_memory", "write_memory"} :
               Occurrences(tools_sent.tools, name) <= 1

\* The first of two Agents built with a computer and the default tools passes
\* the computer descriptor twice.
C13_DescriptorTwice ==
    /\ Len(agents) = 2
    /\ tools_sent.agent = 1
    /\ agents[1].built = <<"computer-preview">>
    /\ tools_sent.tools = <<"computer-preview", "computer-preview">>

(***************************************************************************)
(* The resolution of function names (checked under DispatchSpec).          *)
(***************************************************************************)
\* The output at position j answers a function_call named name.
AnswersCallNamed(j, name) ==
    /\ new_items[j].type = "function_call_output"
    /\ \E i \in 1..(j - 1) :
           /\ new_items[i].type = "function_call"
           /\ new_items[i].call_id = new_items[j].call_id
           /\ new_items[i].name = name

\* C14: with two memory providers, which both declare fetch_memory, every
\* function_call for fetch_memory is answered with what the first provider's
\* fetch gives.
C14_FirstProviderAnswers ==
    Len(providers) = 2 =>
        \A j \in 1..Len(new_items) :
            AnswersCallNamed(j, "fetch_memory") =>
                new_items[j].output =
                    StrOutput(handle_call("fetch_memory", NoArgs,
                                          providers[1], NoFault).value)

\* Two providers hold memory, and the fetch_memory call was answered with the
\* empty string of an Agent that has no memory file.
C14_AgentAnswers ==
    /\ Len(providers) = 2
    /\ providers[1].data # <<>>
    /\ ~brain_file
    /\ \E j \in 1..Len(new_items) :
           /\ AnswersCallNamed(j, "fetch_memory")
           /\ new_items[j].output = StrOutput(EmptyText)

\* The step dispatches a function_call whose arguments parse.
DispatchesFunctionCall ==
    /\ pc = "dispatch"
    /\ response[idx].type = "function_call"
    /\ json_loads(response[idx].arguments).ok

\* C15: a function_call named fetch_memory or write_memory is handled by the
\* memory operation and calls no backend method, also when the backend has a
\* method of that name; a function_call with another name that the backend
\* has as a method calls that method exactly once with the parsed arguments
\* and is answered with the output "success".
C15_MemoryThenBackend ==
    [][DispatchesFunctionCall =>
        LET item == response[idx]
            args == json_loads(item.arguments)
        IN /\ item.name = "fetch_memory" =>
                /\ CountEv(LogDelta, "method") = 0
                /\ ItemsDelta = <<FunctionCallOutput(item.call_id,
                        StrOutput(fetch_memory(brain_file, file, NoFault)))>>
                /\ file' = file
           /\ (item.name = "write_memory" /\ args.has_content) =>
                /\ CountEv(LogDelta, "method") = 0
                /\ ItemsDelta = <<FunctionCallOutput(item.call_id,
                        StrOutput(write_memory(brain_file, args.content)))>>
                /\ file' = write_memory_file(brain_file, file, args.content,
                                            NoFault)
           /\ (item.name \notin {"fetch_memory", "write_memory"}
                 /\ item.name \in BackendMethods(computer)) =>
                /\ LogDelta = <<IF item.name = "screenshot"
                                THEN Event("screenshot", "none")
                                ELSE MethodEvent(item.name, args)>>
                /\ ItemsDelta = <<FunctionCallOutput(item.call_id,
                                                     StrOutput(Success))>>
                /\ file' = file
      ]_vars

\* A backend that has a write_memory method: the write_memory call went to the
\* memory file, and the click call went to the backend with its arguments.
C15_Witness ==
    /\ hasattr_computer(computer, "write_memory")
    /\ brain_file
    /\ pc = "loop"
    /\ Len(new_items) = 4
    /\ new_items[1].name = "write_memory"
    /\ new_items[2].name = "click"
    /\ new_items[3].output = StrOutput(<<"a">>)
    /\ new_items[4].output = StrOutput(Success)
    /\ file.data = append_text(file0.data, <<"a">>)
    /\ SelectSeq(log, LAMBDA e : e.ev = "method")
           = <<MethodEvent("click", json_loads(ArgsA))>>

(***************************************************************************)
(* The history across model calls and turns (checked under HistorySpec).   *)
(***************************************************************************)
IsPrefix(s, t) == Len(s) <= Len(t) /\ SubSeq(t, 1, Len(s)) = s

\* A turn is being made.
InTurn == pc \in {"loop", "dispatch"}

\* In a turn every step leaves the caller-supplied input items as they are
\* and extends the accumulator at its end; each model call receives the input
\* items followed by the accumulator so far; the output items of a response
\* are appended, in order, before the dispatcher's result for each of them.
C20_WithinTurn ==
    [][/\ InTurn =>
            /\ input_items' = input_items
            /\ IsPrefix(new_items, new_items')
       /\ (InTurn /\ ModelCalls' = ModelCalls + 1) =>
            /\ context' = input_items \o new_items
            /\ pc' # "raised" => new_items' = new_items \o response'
       /\ pc = "dispatch" =>
            /\ Len(ItemsDelta) <= 1
            /\ \A k \in 1..Len(ItemsDelta) :
                  /\ ItemsDelta[k].type = OutputTypeOf(response[idx].type)
                  /\ ItemsDelta[k].call_id = response[idx].call_id
            /\ pc' # "raised" => idx' = idx + 1
      ]_vars

\* main goes from its start to its loop, where the user leaves or a turn is
\* entered with the history so far, which is empty, and one new user item.
C20_CliPassesHistory ==
    [][pc = "main" =>
          \/ pc' = "exited"
          \/ /\ pc' = "loop"
             /\ input_items' = input_items \o <<UserMessage>>
             /\ new_items' = <<>>
      ]_vars

\* C20: the history is append-only.  In a turn every step leaves the
\* caller-supplied input items as they are and extends the accumulator at its
\* end; each model call receives the input items followed by the accumulator
\* so far; the output items of a response are appended, in order, before the
\* dispatcher's result for each of them; and the CLI passes to a turn the
\* history of the turns before, with their whole output, then one new user
\* item.
C20_AppendOnlyHistory == C20_WithinTurn /\ C20_CliPassesHistory

\* main has raised the TypeError of the Agent's construction and no turn was
\* entered.
C20_MainRaises ==
    /\ pc = "raised"
    /\ error = "TypeError"
    /\ input_items = <<>>
    /\ ModelCalls = 0

====
